---- MODULE Spec2Model ----
(***************************************************************************)
(* Deadwood-AI file storage API.                                           *)
(*                                                                         *)
(* Two FastAPI applications live in the repository:                        *)
(*   - the router based service: routers/auth.py (POST /token) and         *)
(*     routers/upload.py (POST /upload), on top of supabase_auth.py;       *)
(*     specification Spec;                                                 *)
(*   - storage/app.py, the application object run.py hands to uvicorn,     *)
(*     with its own POST /upload; specification SpecApp.                   *)
(*                                                                         *)
(* Both upload handlers are `async def`: they run on the single event loop *)
(* of the uvicorn process that run.py starts, so a handler runs without    *)
(* interruption from one `await` to the next.  The only `await` in either  *)
(* handler is `await file.read()`, evaluated after the target file has     *)
(* been opened for writing.  Each handler is therefore two atomic steps.   *)
(*                                                                         *)
(* Wall-clock values (copy_time, upload_date) and the client supplied      *)
(* content type are not modelled; nothing below reads them.                *)
(***************************************************************************)
EXTENDS Integers, Sequences, FiniteSets, TLC

(***************************************************************************)
(* Bounds of the model.                                                    *)
(***************************************************************************)
MaxRequests == 2      \* upload requests served
MaxLen == 2           \* longest uploaded file, in bytes

Reqs == 1..MaxRequests

(***************************************************************************)
(* Inputs.                                                                 *)
(***************************************************************************)
Alphabet == <<"a", "b">>
ByteValues == {Alphabet[i] : i \in 1..Len(Alphabet)}

RECURSIVE SeqsUpTo(_)
SeqsUpTo(n) ==
    IF n = 0 THEN {<<>>}
    ELSE LET shorter == SeqsUpTo(n - 1)
         IN  shorter \cup {Append(s, b) : s \in {t \in shorter : Len(t) = n - 1},
                                          b \in ByteValues}

Contents == SeqsUpTo(MaxLen)
FileNames == {"image.tif"}
Uuids == {"u1", "u2"}      \* values uuid.uuid4() returns

\* what a client may put in the form fields: <<platform, license, aquisition_date>>
FormInputs ==
    {<<"drone", "cc-by", "2023-05-01T00:00:00Z">>,
     <<"satellite", "cc-by", "2023-05-01T00:00:00Z">>,
     <<"drone", "mit", "2023-05-01T00:00:00Z">>,
     <<"drone", "cc-by", "yesterday">>}

\* bearer tokens a client may present and the credentials it may post
Tokens == {"tok_alice", "tok_void", "tok_expired"}
Credentials == {<<"alice", "secret">>, <<"alice", "wrong">>}
IdpModes == {"up", "down"}

(***************************************************************************)
(* routers/upload.py: the closed enumerations and the form validation that *)
(* FastAPI performs from the handler's annotations before calling it.      *)
(***************************************************************************)
PlatformEnum == {"drone", "airborne", "sattelite"}
LicenseEnum == {"cc-by", "cc-by-sa"}
StatusEnum == {"pending", "processing", "errored", "processed", "audited", "audit_failed"}
ValidDates == {"2023-05-01T00:00:00Z"}

FormValid(platform, license, date) ==
    /\ platform \in PlatformEnum
    /\ license \in LicenseEnum
    /\ date \in ValidDates

\* app.py validates the platform field only
AppFormValid(platform) == platform \in PlatformEnum

(***************************************************************************)
(* The identity service, seen through the supabase client.                 *)
(*   get_user(jwt) answers with the user the token belongs to, or raises   *)
(*   (token unknown or expired, service unreachable).  "tok_void" stands   *)
(*   for an answer that carries no user id, the case upload.py line 115    *)
(*   tests for.                                                            *)
(***************************************************************************)
Principal == [t \in {"tok_alice", "tok_void"} |-> IF t = "tok_alice" THEN "alice" ELSE ""]
Raised == "<raised>"

get_user(jwt, idp) ==
    IF idp = "down" THEN Raised
    ELSE IF jwt \in DOMAIN Principal THEN Principal[jwt]
    ELSE Raised

sign_in_with_password(cred, idp) ==
    IF idp = "down" THEN Raised
    ELSE IF cred = <<"alice", "secret">> THEN "tok_alice"
    ELSE Raised

(***************************************************************************)
(* hashlib.sha256(bytes).hexdigest().  The digest is modelled by the       *)
(* bijective base-(n+1) numeral of the byte string, which like SHA-256 on  *)
(* real inputs gives different strings different digests; hexdigest        *)
(* renders it in lowercase hexadecimal.                                    *)
(***************************************************************************)
Ord(b) == CHOOSE i \in 1..Len(Alphabet) : Alphabet[i] = b

RECURSIVE Digest(_)
Digest(bytes) ==
    IF bytes = <<>> THEN 0
    ELSE Digest(SubSeq(bytes, 1, Len(bytes) - 1)) * (Len(Alphabet) + 1) + Ord(bytes[Len(bytes)])

HexDigits == <<"0", "1", "2", "3", "4", "5", "6", "7", "8", "9", "a", "b", "c", "d", "e", "f">>

RECURSIVE Hex(_)
Hex(n) ==
    IF n < 16 THEN HexDigits[n + 1]
    ELSE Hex(n \div 16) \o HexDigits[(n % 16) + 1]

sha256_hexdigest(bytes) == Hex(Digest(bytes))

(***************************************************************************)
(* State.                                                                  *)
(***************************************************************************)
VARIABLES
    disk,       \* settings.raw_upload_path: path -> bytes of each existing file
    table,      \* settings.metadata_table: the rows inserted, in order
    sessions,   \* identity-service client sessions opened and not signed out
    req,        \* upload requests: position in the handler, inputs, response
    token_response  \* the response to the latest POST /token

vars == <<disk, table, sessions, req, token_response>>


(***************************************************************************)
(* Values of the request and response fields.                              *)
(***************************************************************************)
RawUploadPath == "raw_upload"

\* the UploadFile FastAPI builds from the multipart body before the handler runs
UploadFile(filename, content) ==
    [filename |-> filename, size |-> Len(content), content |-> content]

NoFile == UploadFile("", <<>>)

NoMetadata ==
    [user_id |-> "", file_name |-> "", file_size |-> 0, target_path |-> "",
     uuid |-> "", sha256 |-> "", platform |-> "", license |-> "", status |-> ""]

\* a request: the handler's position and locals, then its response.  The locals
\* are dropped once the response is sent.
IdleRequest ==
    [pc |-> "idle", token |-> "", file |-> NoFile, platform |-> "", license |-> "",
     user_id |-> "", uuid |-> "", target_path |-> "",
     status |-> 0, outcome |-> "", detail |-> "", metadata |-> NoMetadata]

NoResponse == [status |-> 0, access_token |-> ""]

Init ==
    /\ disk = <<>>
    /\ table = <<>>
    /\ sessions = {}
    /\ req = [r \in Reqs |-> IdleRequest]
    /\ token_response = NoResponse

\* requests are numbered in the order in which the server accepts them
NextToArrive(r) == req[r].pc = "idle" /\ (IF r = 1 THEN TRUE ELSE req[r - 1].pc # "idle")

(***************************************************************************)
(* supabase_auth.py                                                        *)
(*   Both functions create a client, make one call and sign out on the     *)
(*   line after the call.  When the call raises, the sign_out line is not  *)
(*   reached.  `value` is what the function returns, or Raised.            *)
(***************************************************************************)
login(cred, idp) ==
    LET auth_response == sign_in_with_password(cred, idp)
    IN  [value |-> auth_response, signed_out |-> auth_response # Raised]

verify_token(jwt, idp) ==
    LET response == get_user(jwt, idp)
    IN  [value |-> response, signed_out |-> response # Raised]

\* sessions left behind by a call made on behalf of `owner`
SessionsAfter(owner, call) ==
    IF call.signed_out THEN sessions ELSE sessions \cup {owner}

(***************************************************************************)
(* routers/auth.py: POST /token                                            *)
(***************************************************************************)
token_endpoint ==
    /\ \E cred \in Credentials, idp \in IdpModes :
         LET response == login(cred, idp)
         IN  /\ sessions' = SessionsAfter(<<"login", cred[1]>>, response)
             /\ token_response' =
                    IF response.value = Raised
                    THEN [status |-> 500, access_token |-> ""]
                    ELSE [status |-> 200, access_token |-> response.value]
    /\ UNCHANGED <<disk, table, req>>

(***************************************************************************)
(* The filesystem calls the upload handlers make.                          *)
(***************************************************************************)
\* f"{uid}_{file.filename}" under settings.raw_upload_path
TargetPath(uid, filename) == RawUploadPath \o "/" \o uid \o "_" \o filename

\* the existence check left out
path_never_exists(fs, path) == FALSE

\* target_path.exists()
path_exists(fs, path) == path \in DOMAIN fs

\* the file opened only after the body has been read: nothing is created yet
open_deferred(fs, path) == fs

\* target_path.open("wb"): creates the file, or truncates the one that is there
open_wb(fs, path) == (path :> <<>>) @@ fs

\* buffer.write(...): failAt = NoFailure when the write and the close succeed;
\* otherwise the number of bytes that reached the file before the write (or the
\* read that feeds it) raised
NoFailure == -1
\* a short write that goes unnoticed: the last byte is lost
written_short(content, failAt) ==
    IF failAt = NoFailure THEN SubSeq(content, 1, Len(content) - 1)
    ELSE SubSeq(content, 1, failAt)

written(content, failAt) ==
    IF failAt = NoFailure THEN content ELSE SubSeq(content, 1, failAt)

\* the file after the `with target_path.open("wb")` block has been left
write(fs, path, bytes) == (path :> bytes) @@ fs

\* the file read back before the write block has flushed and closed it
HashSourceBeforeWrite(before, after, path) == before[path]

\* the bytes given to hashlib: target_path.open("rb").read(), after the write
\* block has closed the file
HashSource(before, after, path) == after[path]

(***************************************************************************)
(* The metadata store.                                                     *)
(***************************************************************************)
DbModes == {"ok", "unreachable"}

DbError(db) == IF db = "unreachable" THEN "connection refused" ELSE ""

\* client.table(settings.metadata_table).insert(row).execute()
insert(rows, row, db) == IF db = "ok" THEN Append(rows, row) ELSE rows

\* with use_client(token) as client: the session lasts as long as the block
use_client(token) == [value |-> token, signed_out |-> TRUE]

(***************************************************************************)
(* routers/upload.py: POST /upload                                         *)
(***************************************************************************)
FileUploadMetadata(q, sha256) ==
    [user_id |-> q.user_id,
     file_name |-> q.file.filename,
     file_size |-> q.file.size,
     target_path |-> q.target_path,
     uuid |-> q.uuid,
     sha256 |-> sha256,
     platform |-> q.platform,
     license |-> q.license,
     status |-> "pending"]

Respond(q, status, outcome, detail) ==
    [IdleRequest EXCEPT !.pc = "done", !.target_path = q.target_path,
                        !.status = status, !.outcome = outcome, !.detail = detail]

\* an exception that leaves the handler: the framework answers 500
Unhandled(q, outcome) == Respond(q, 500, outcome, "Internal Server Error")

\* the insert error swallowed: the handler answers as if the row were stored
insert_error_swallowed(e) == [status |-> 201, detail |-> ""]

\* except Exception as e: raise HTTPException(status_code=500, detail=str(e))
insert_error_response(e) == [status |-> 500, detail |-> e]

\* From the arrival of the request to the suspension at `await file.read()`.
\* Inputs are drawn where the handler first looks at them.
upload_file_begin(r) ==
    /\ NextToArrive(r)
    /\ \E form \in FormInputs :
         IF ~FormValid(form[1], form[2], form[3])
         THEN /\ req' = [req EXCEPT ![r] =
                    Respond(IdleRequest, 422, "invalid_form", "Unprocessable Entity")]
              /\ UNCHANGED <<disk, sessions>>
         ELSE \E token \in Tokens, idp \in IdpModes :
                LET auth == verify_token(token, idp)
                    user_id == auth.value
                IN  /\ sessions' = SessionsAfter(<<"verify_token", r>>, auth)
                    /\ IF user_id = Raised
                       THEN /\ req' = [req EXCEPT ![r] = Unhandled(IdleRequest, "auth_raised")]
                            /\ UNCHANGED disk
                       ELSE IF user_id = ""
                       THEN /\ req' = [req EXCEPT ![r] =
                                  Respond(IdleRequest, 401, "unauthorized", "Invalid token")]
                            /\ UNCHANGED disk
                       ELSE \E uid \in Uuids, filename \in FileNames :
                              LET target_path == TargetPath(uid, filename)
                              IN  IF path_exists(disk, target_path)
                                  THEN /\ req' = [req EXCEPT ![r] =
                                             Unhandled([IdleRequest EXCEPT
                                                           !.target_path = target_path],
                                                       "collision")]
                                       /\ UNCHANGED disk
                                  ELSE \E content \in Contents :
                                         /\ disk' = open_wb(disk, target_path)
                                         /\ req' = [req EXCEPT ![r] =
                                               [IdleRequest EXCEPT
                                                   !.pc = "reading",
                                                   !.token = token,
                                                   !.file = UploadFile(filename, content),
                                                   !.platform = form[1],
                                                   !.license = form[2],
                                                   !.user_id = user_id,
                                                   !.uuid = uid,
                                                   !.target_path = target_path]]
    /\ UNCHANGED <<table, token_response>>

\* From the resumption after `await file.read()` to the response.
upload_file_finish(r) ==
    /\ req[r].pc = "reading"
    /\ \E failAt \in NoFailure..Len(req[r].file.content) :
         LET q == req[r]
             after == write(disk, q.target_path, written(q.file.content, failAt))
         IN  /\ disk' = after
             /\ IF failAt # NoFailure
                THEN /\ req' = [req EXCEPT ![r] = Unhandled(q, "write_failed")]
                     /\ UNCHANGED <<table, sessions>>
                ELSE \E db \in DbModes :
                       LET sha256 == sha256_hexdigest(HashSource(disk, after, q.target_path))
                           metadata == FileUploadMetadata(q, sha256)
                           client == use_client(q.token)
                           failed == insert_error_response(DbError(db))
                       IN  /\ sessions' = SessionsAfter(<<"use_client", r>>, client)
                           /\ table' = insert(table, metadata, db)
                           /\ req' = [req EXCEPT ![r] =
                                  IF db = "ok"
                                  THEN [Respond(q, 201, "created", "")
                                           EXCEPT !.metadata = metadata]
                                  ELSE Respond(q, failed.status, "insert_failed",
                                               failed.detail)]
    /\ UNCHANGED token_response

Next ==
    \/ token_endpoint
    \/ \E r \in Reqs : upload_file_begin(r)
    \/ \E r \in Reqs : upload_file_finish(r)

Spec == Init /\ [][Next]_vars


(***************************************************************************)
(* app.py: POST /upload of the application run.py starts.                  *)
(*   The handler has two parameters, the file and the platform.  The       *)
(*   client served at /upload_code.py (upload_client_example.py) sends a   *)
(*   bearer token in the Authorization header; the handler does not read   *)
(*   it.  The token is kept in the request record to say which request     *)
(*   carried which token.                                                  *)
(***************************************************************************)
AppPlatformInputs == {"drone", "satellite"}

AppFileUploadMetadata(q, sha256) ==
    [filename |-> q.file.filename,
     file_size |-> q.file.size,
     target_path |-> q.target_path,
     uuid |-> q.uuid,
     sha256 |-> sha256,
     platform |-> q.platform]

\* metadata.model_dump_json(indent=4), as the sequence of its tokens
model_dump_json(m) ==
    <<"{", m.filename, ToString(m.file_size), m.target_path, m.uuid, m.sha256,
      m.platform, "}">>

\* settings.raw_upload_path / f"{uid}_{file.filename}.json"
MetadataPath(uid, filename) == TargetPath(uid, filename) \o ".json"

AppRespond(q, status, outcome, detail) ==
    [Respond(q, status, outcome, detail) EXCEPT !.token = q.token]

app_upload_file_begin(r) ==
    /\ NextToArrive(r)
    /\ \E token \in Tokens, platform \in AppPlatformInputs :
         LET arrived == [IdleRequest EXCEPT !.token = token]
         IN  IF ~AppFormValid(platform)
             THEN /\ req' = [req EXCEPT ![r] =
                        AppRespond(arrived, 422, "invalid_form", "Unprocessable Entity")]
                  /\ UNCHANGED disk
             ELSE \E uid \in Uuids, filename \in FileNames :
                    LET target_path == TargetPath(uid, filename)
                    IN  IF path_exists(disk, target_path)
                        THEN /\ req' = [req EXCEPT ![r] =
                                   AppRespond([arrived EXCEPT !.target_path = target_path],
                                              500, "collision", "Internal Server Error")]
                             /\ UNCHANGED disk
                        ELSE \E content \in Contents :
                               /\ disk' = open_wb(disk, target_path)
                               /\ req' = [req EXCEPT ![r] =
                                     [arrived EXCEPT
                                         !.pc = "reading",
                                         !.file = UploadFile(filename, content),
                                         !.platform = platform,
                                         !.uuid = uid,
                                         !.target_path = target_path]]
    /\ UNCHANGED <<table, sessions, token_response>>

app_upload_file_finish(r) ==
    /\ req[r].pc = "reading"
    /\ \E failAt \in NoFailure..Len(req[r].file.content) :
         LET q == req[r]
             after == write(disk, q.target_path, written(q.file.content, failAt))
         IN  IF failAt # NoFailure
             THEN /\ disk' = after
                  /\ req' = [req EXCEPT ![r] =
                         AppRespond(q, 500, "write_failed", "Internal Server Error")]
             ELSE \E jsonFails \in BOOLEAN :
                    LET sha256 == sha256_hexdigest(HashSource(disk, after, q.target_path))
                        metadata == AppFileUploadMetadata(q, sha256)
                        metadata_path == MetadataPath(q.uuid, q.file.filename)
                    IN  IF jsonFails
                        THEN /\ disk' = write(after, metadata_path, <<>>)
                             /\ req' = [req EXCEPT ![r] =
                                    AppRespond(q, 500, "write_failed", "Internal Server Error")]
                        ELSE /\ disk' = write(after, metadata_path, model_dump_json(metadata))
                             /\ req' = [req EXCEPT ![r] =
                                    [AppRespond(q, 201, "created", "")
                                        EXCEPT !.metadata = metadata]]
    /\ UNCHANGED <<table, sessions, token_response>>

NextApp ==
    \/ \E r \in Reqs : app_upload_file_begin(r)
    \/ \E r \in Reqs : app_upload_file_finish(r)

SpecApp == Init /\ [][NextApp]_vars


(***************************************************************************)
(* Properties.                                                             *)
(***************************************************************************)
\* a token the identity service accepts in no circumstances
TokenFails(token) == \A idp \in IdpModes : get_user(token, idp) \in {Raised, ""}

\* outcomes of a request whose token verification failed
AuthFailures == {"auth_raised", "unauthorized"}

\* request r has opened the file at its target_path
Wrote(r) ==
    \/ req[r].pc = "reading"
    \/ req[r].outcome \in {"write_failed", "insert_failed", "created"}

Owners(p) == {r \in Reqs : Wrote(r) /\ req[r].target_path = p}

\* the records uploads have produced: the bodies of the 201 responses and the rows
Records ==
    {req[r].metadata : r \in {x \in Reqs : req[x].status = 201}}
        \cup {table[i] : i \in DOMAIN table}

\* C1: an upload request whose bearer token fails verification is rejected and
\* leaves the upload directory and the metadata store as they were: no file is
\* created or written, no row is inserted.  Stated for app.py's handler, where
\* the token is the one the request carries.
C1_AuthFailureTouchesNothing ==
    [][\A r \in Reqs :
          (req'[r] # req[r] /\ TokenFails(req'[r].token)) =>
              /\ disk' = disk
              /\ table' = table
              /\ req'[r].pc = "done"
              /\ req'[r].status # 201]_vars

\* The same statement for the handler of routers/upload.py, where a failed
\* verification is the outcome of the call to verify_token.
RouterAuthFailureTouchesNothing ==
    [][\A r \in Reqs :
          (req[r].pc = "idle" /\ req'[r].outcome \in AuthFailures) =>
              /\ disk' = disk
              /\ table' = table
              /\ req'[r].pc = "done"
              /\ req'[r].status # 201]_vars

\* C2: when token verification fails during an upload, the request ends with
\* 401, never with a 5xx status.
C2_AuthFailureIs401 ==
    \A r \in Reqs : req[r].outcome \in AuthFailures => req[r].status = 401

\* C3: an upload that finds a file at its target_path aborts with 409 before any
\* write; the existing file is unchanged and no row is inserted.
C3_CollisionIsConflict ==
    [][\A r \in Reqs :
          (req[r].pc = "idle" /\ req'[r].outcome = "collision") =>
              /\ req'[r].status = 409
              /\ disk' = disk
              /\ table' = table]_vars

\* C4: under every interleaving of upload requests, two requests with the same
\* target_path included, every file of the upload directory has exactly one
\* upload that opened it, no file disappears, and the bytes of a file change
\* only in the step in which that upload writes them.
C4_NoOverwriteUnderInterleaving ==
    [][/\ \A p \in DOMAIN disk' : Cardinality(Owners(p)') = 1
       /\ \A p \in DOMAIN disk :
             /\ p \in DOMAIN disk'
             /\ disk'[p] # disk[p] =>
                    \E r \in Owners(p) : req[r].pc = "reading" /\ req'[r].pc = "done"]_vars

\* a second request composed the target_path of an upload that is still in
\* flight, and was turned away
C4_Witness ==
    \E r1, r2 \in Reqs :
        /\ req[r1].pc = "reading"
        /\ req[r2].outcome = "collision"
        /\ req[r2].target_path = req[r1].target_path

\* C5: in every 201 response the sha256 is the SHA-256 of the bytes found at
\* target_path, from the moment the call returns on.
C5_HashOfPersistedBytes ==
    \A r \in Reqs :
        req[r].status = 201 =>
            /\ req[r].metadata.target_path \in DOMAIN disk
            /\ req[r].metadata.sha256 =
                   sha256_hexdigest(disk[req[r].metadata.target_path])

\* a successful upload of a file that is not empty
C5_Witness ==
    \E r \in Reqs :
        /\ req[r].status = 201
        /\ req[r].metadata.sha256 # sha256_hexdigest(<<>>)

\* C6: in every record an upload produced, file_size is the byte length of the
\* file at the record's target_path.
C6_FileSizeIsByteLength ==
    \A m \in Records :
        /\ m.target_path \in DOMAIN disk
        /\ m.file_size = Len(disk[m.target_path])

\* two rows, one of an empty file and one of a file with bytes
C6_Witness ==
    \E i, j \in DOMAIN table : table[i].file_size = 0 /\ table[j].file_size > 0

\* C7: when the insert fails after the file was written, the request ends with
\* 500 and the store's error detail, no row exists for the upload, and the file
\* is on disk with the bytes written, then and afterwards.
C7_InsertFailureKeepsFile ==
    /\ [][\A r \in Reqs :
             (req[r].pc = "reading" /\ req'[r].outcome = "insert_failed") =>
                 /\ req'[r].status = 500
                 /\ req'[r].detail \in {DbError(db) : db \in DbModes \ {"ok"}}
                 /\ table' = table
                 /\ req[r].target_path \in DOMAIN disk'
                 /\ disk'[req[r].target_path] = req[r].file.content]_vars
    /\ [](\A r \in Reqs :
             req[r].outcome = "insert_failed" =>
                 /\ req[r].target_path \in DOMAIN disk
                 /\ \A i \in DOMAIN table : table[i].target_path # req[r].target_path)

\* an upload whose insert failed, its file with bytes on disk
C7_Witness ==
    \E r \in Reqs :
        /\ req[r].outcome = "insert_failed"
        /\ req[r].status = 500
        /\ Len(disk[req[r].target_path]) > 0

\* C8: when writing the bytes to target_path fails, the upload aborts with 500,
\* the partial file is removed and no row is inserted.
C8_WriteFailureRemovesFile ==
    [][\A r \in Reqs :
          (req[r].pc = "reading" /\ req'[r].outcome = "write_failed") =>
              /\ req'[r].status = 500
              /\ req[r].target_path \notin DOMAIN disk'
              /\ table' = table]_vars

\* C9: no Login or VerifyToken call leaves its session open: once the call has
\* returned or raised (every call is over within the step that makes it), the
\* session is signed out.
C9_NoSessionOutlivesItsCall == sessions = {}

\* C10: every row refers to a completely written file whose bytes hash to the
\* row's sha256 and has status pending; a row is inserted at most once per
\* request, in the request's last step, and rows are never changed or removed.
C10_RowsInv ==
    /\ \A i \in DOMAIN table :
          /\ table[i].target_path \in DOMAIN disk
          /\ sha256_hexdigest(disk[table[i].target_path]) = table[i].sha256
          /\ \A r \in Owners(table[i].target_path) : req[r].pc = "done"
          /\ table[i].status = "pending"
    /\ \A i, j \in DOMAIN table :
          table[i].target_path = table[j].target_path => i = j

C10_RowsStep ==
    \/ table' = table
    \/ \E r \in Reqs :
          /\ req[r].pc = "reading"
          /\ req'[r].pc = "done"
          /\ req'[r].status = 201
          /\ table' = Append(table, req'[r].metadata)

C10_RowsMatchFiles == []C10_RowsInv /\ [][C10_RowsStep]_vars

\* a row whose target_path a later request composed again; the row and its file
\* are as they were
C10_Witness ==
    /\ Len(table) = 1
    /\ \E r \in Reqs :
          /\ req[r].outcome = "collision"
          /\ req[r].target_path = table[1].target_path

====
